---- MODULE Spec2Model ----
(***************************************************************************)
(* A model of the DigitalOcean account object of the Outline server        *)
(* manager (DigitalOceanAccount and its install-script helpers).           *)
(*                                                                         *)
(* JavaScript strings whose characters matter (the access token, the       *)
(* server name) are sequences of UTF-16 code units, as in the language.    *)
(* Strings that are only compared or concatenated are TLA+ strings.        *)
(***************************************************************************)
EXTENDS Integers, Sequences, FiniteSets, TLC

VARIABLES
    id,                 \* DigitalOceanAccount.id
    accessToken,        \* DigitalOceanAccount.accessToken (= digitalOcean.accessToken)
    shadowboxSettings,  \* DigitalOceanAccount.shadowboxSettings
    debugMode,          \* DigitalOceanAccount.debugMode
    servers,            \* DigitalOceanAccount.servers, the in-memory registry
    calls,              \* the operations invoked on the account, each with its position
    requests,           \* the invocations the provider session has received, in order
    droplets,           \* the provider's droplets (remote state)
    console,            \* what console.debug has printed
    input,              \* argument of the helper function under study
    output,             \* its outcome
    twin,               \* two createServer runs that differ in debugMode only
    options,            \* OutlineRegionPicker.options
    selectedIndex,      \* OutlineRegionPicker.selectedIndex
    isServerBeingCreated, \* OutlineRegionPicker.isServerBeingCreated
    dispatched          \* the events the region picker has dispatched, in order

pickerVars == <<options, selectedIndex, isServerBeingCreated, dispatched>>

vars == <<id, accessToken, shadowboxSettings, debugMode, servers, calls, requests,
          droplets, console, input, output, twin, pickerVars>>

accountVars == <<id, accessToken, shadowboxSettings, debugMode, servers, calls,
                 requests, droplets, console>>

fields == <<id, accessToken, shadowboxSettings, debugMode>>

\* The region picker as its property initialisers leave it.
NewPicker ==
    /\ options = <<>>
    /\ selectedIndex = -1
    /\ isServerBeingCreated = FALSE
    /\ dispatched = <<>>

-----------------------------------------------------------------------------
(* Bounds of the model.                                                    *)

MaxCalls == 2
MaxForeign == 1
MaxRegions == 2
MaxTokenLen == 3
MaxNameLen == 3

-----------------------------------------------------------------------------
(* Program constants.                                                      *)

SHADOWBOX_TAG == "shadowbox"
MACHINE_SIZE == "s-1vcpu-1gb"
IMAGE == "docker-18-04"
InvalidToken == "Invalid DigitalOcean Token"

-----------------------------------------------------------------------------
(* Code units.                                                             *)

BACKSLASH == 92
LOWER_U == 117
CR == 13

RECURSIVE SeqsUpTo(_, _)
SeqsUpTo(S, n) ==
    IF n = 0 THEN {<<>>}
    ELSE LET shorter == SeqsUpTo(S, n - 1)
         IN  shorter \cup {Append(s, x) : s \in {t \in shorter : Len(t) = n - 1}, x \in S}

\* String.prototype.trim strips WhiteSpace and LineTerminator code units.
IsWhiteSpace(c) ==
    \/ c \in {9, 10, 11, 12, 13, 32, 160, 5760, 8232, 8233, 8239, 8287, 12288, 65279}
    \/ (c >= 8192 /\ c <= 8202)

RECURSIVE TrimStart(_)
TrimStart(s) ==
    IF s # <<>> /\ IsWhiteSpace(Head(s)) THEN TrimStart(Tail(s)) ELSE s

RECURSIVE TrimEnd(_)
TrimEnd(s) ==
    IF s # <<>> /\ IsWhiteSpace(s[Len(s)]) THEN TrimEnd(SubSeq(s, 1, Len(s) - 1)) ELSE s

Trim(s) == TrimEnd(TrimStart(s))

\* The character class [A-Za-z0-9_\/-].
InTokenClass(c) ==
    \/ (c >= 65 /\ c <= 90)
    \/ (c >= 97 /\ c <= 122)
    \/ (c >= 48 /\ c <= 57)
    \/ c = 95
    \/ c = 47
    \/ c = 45

\* /^[A-Za-z0-9_\/-]+$/.test(s): one or more class characters, start to end.
PatternTest(s) == Len(s) >= 1 /\ \A i \in 1..Len(s) : InTokenClass(s[i])

\* The pattern without its anchors: some class character somewhere.
PatternTestUnanchored(s) == \E i \in 1..Len(s) : InTokenClass(s[i])

sanitizeUnanchored(in) ==
    LET sanitizedInput == Trim(in)
    IN  IF ~PatternTestUnanchored(sanitizedInput)
        THEN [threw |-> TRUE, error |-> InvalidToken, value |-> <<>>]
        ELSE [threw |-> FALSE, error |-> "", value |-> sanitizedInput]

sanitizeDigitalOceanToken(in) ==
    LET sanitizedInput == Trim(in)
    IN  IF ~PatternTest(sanitizedInput)
        THEN [threw |-> TRUE, error |-> InvalidToken, value |-> <<>>]
        ELSE [threw |-> FALSE, error |-> "", value |-> sanitizedInput]

-----------------------------------------------------------------------------
(* bashEscape.                                                             *)

IsHighSurrogate(c) == c >= 55296 /\ c <= 56319
IsLowSurrogate(c) == c >= 56320 /\ c <= 57343

\* Number.prototype.toString(16): lower-case digits, no leading zeros.
HexDigit(n) == IF n < 10 THEN 48 + n ELSE 87 + n

RECURSIVE ToHex(_)
ToHex(n) == IF n < 16 THEN <<HexDigit(n)>> ELSE Append(ToHex(n \div 16), HexDigit(n % 16))

RECURSIVE PadStart(_, _, _)
PadStart(s, n, c) == IF Len(s) >= n THEN s ELSE PadStart(<<c>> \o s, n, c)

\* c => '\\u' + c.charCodeAt(0).toString(16).padStart(4, '0'); c is the matched
\* character as a string of one or two code units.
EscapeMatch(c) == <<BACKSLASH, LOWER_U>> \o PadStart(ToHex(c[1]), 4, 48)

\* The length in code units of the code point that starts s (the u flag makes
\* the pattern match whole code points).
CodePointLen(s) ==
    IF Len(s) >= 2 /\ IsHighSurrogate(s[1]) /\ IsLowSurrogate(s[2]) THEN 2 ELSE 1

\* \P{ASCII}: a code point outside U+0000..U+007F.
NotASCII(c) == c > 127

RECURSIVE bashEscape(_)
bashEscape(s) ==
    IF s = <<>> THEN <<>>
    ELSE LET n == CodePointLen(s)
             c == SubSeq(s, 1, n)
             rest == SubSeq(s, n + 1, Len(s))
         IN  IF NotASCII(c[1]) THEN EscapeMatch(c) \o bashEscape(rest)
             ELSE c \o bashEscape(rest)

-----------------------------------------------------------------------------
(* getInstallScript. The script is the list of its lines; an export line   *)
(* has the variable's name and its value, the server-name line the text    *)
(* given to printf.                                                        *)

Line(var, value, printf) == [var |-> var, value |-> value, printf |-> printf]

\* An optional settings field is <<>> when absent and <<v>> when present.
Truthy(field, falsy) == field # <<>> /\ field[1] # falsy

OptionalLine(var, field, falsy, text) ==
    IF Truthy(field, falsy) THEN <<Line(var, text, <<>>)>> ELSE <<>>

getInstallScript(token, name, settings) ==
    LET sanitizedAccessToken == sanitizeDigitalOceanToken(token)
    IN  IF sanitizedAccessToken.threw
        THEN [threw |-> TRUE, error |-> sanitizedAccessToken.error, value |-> <<>>]
        ELSE [threw |-> FALSE, error |-> "", value |->
                <<Line("#!/bin/bash -eu", "", <<>>)>>
                \o <<Line("DO_ACCESS_TOKEN", "", sanitizedAccessToken.value)>>
                \o OptionalLine("SB_IMAGE", settings.imageId, "",
                                IF settings.imageId = <<>> THEN "" ELSE settings.imageId[1])
                \o OptionalLine("WATCHTOWER_REFRESH_SECONDS",
                                settings.watchtowerRefreshSeconds, 0,
                                IF settings.watchtowerRefreshSeconds = <<>> THEN ""
                                ELSE ToString(settings.watchtowerRefreshSeconds[1]))
                \o OptionalLine("SENTRY_API_URL", settings.sentryApiUrl, "",
                                IF settings.sentryApiUrl = <<>> THEN ""
                                ELSE settings.sentryApiUrl[1])
                \o OptionalLine("SB_METRICS_URL", settings.metricsUrl, "",
                                IF settings.metricsUrl = <<>> THEN ""
                                ELSE settings.metricsUrl[1])
                \o <<Line("SB_DEFAULT_SERVER_NAME", "", bashEscape(name))>>
                \o <<Line("do_install_script.SCRIPT", "", <<>>)>>]

-----------------------------------------------------------------------------
(* The account object, its collaborators and the values they exchange.     *)

AccountId == "do-account"

\* " a7\n" and "a'".
Tokens == {<<32, 97, 55, 10>>, <<97, 39>>}

\* "aé".
ServerNames == {<<97, 233>>}

RegionIds == {"nyc1"}

Settings ==
    [imageId |-> <<"outline/shadowbox:stable">>,
     metricsUrl |-> <<"https://metrics.example">>,
     sentryApiUrl |-> <<>>,
     watchtowerRefreshSeconds |-> <<>>]

TransportErrors == {"ECONNRESET", "HTTP 429"}
KeyGenError == "key generation failed"

\* crypto.generateKeyPair: the pair made for call k. The private half is
\* "P\r\n<k>".
KeyPair(k) == [public |-> <<112, 48 + k>>, private |-> <<80, CR, 10, 48 + k>>]

IdleCall ==
    [op |-> "none", pc |-> "idle", name |-> <<>>, region |-> "", fetchFromHost |-> FALSE,
     dropletSpec |-> <<>>, response |-> <<>>, result |-> <<>>, error |-> ""]

\* The slot of the next call: calls are numbered in the order they are made.
IsNext(c) == calls[c].pc = "idle" /\ (IF c = 1 THEN TRUE ELSE calls[c - 1].pc # "idle")

Constructor(token, settings, debug) ==
    /\ id = AccountId
    /\ accessToken = token
    /\ shadowboxSettings = settings
    /\ debugMode = debug
    /\ servers = <<>>
    /\ calls = [c \in 1..MaxCalls |-> IdleCall]
    /\ requests = <<>>
    /\ droplets = [list |-> <<>>, created |-> 0]
    /\ console = <<>>

\* `${this.id}:${dropletInfo.id}`
ServerId(accountId, dropletInfo) == accountId \o ":" \o ToString(dropletInfo.id)

\* new DigitalOceanServer(id, digitalOcean, dropletInfo); obj is the identity of
\* the object constructed: the call that constructed it and its rank among the
\* objects of that call.
DigitalOceanServer(serverId, dropletInfo, obj) ==
    [id |-> serverId, dropletInfo |-> dropletInfo, obj |-> obj]

\* The same with unshift in place of push.
createDigitalOceanServerUnshift(list, accountId, dropletInfo, c, n) ==
    LET server == DigitalOceanServer(ServerId(accountId, dropletInfo), dropletInfo, <<c, n>>)
    IN  [servers |-> <<server>> \o list, server |-> server]

\* createDigitalOceanServer on the list `list`, as the n-th construction of
\* call c: the list after the push, and the server returned.
createDigitalOceanServer(list, accountId, dropletInfo, c, n) ==
    LET server == DigitalOceanServer(ServerId(accountId, dropletInfo), dropletInfo, <<c, n>>)
    IN  [servers |-> Append(list, server), server |-> server]

\* droplets.map(droplet => this.createDigitalOceanServer(...)) on the list `list`.
RECURSIVE MapCreate(_, _, _, _, _)
MapCreate(list, accountId, infos, c, n) ==
    IF infos = <<>> THEN [servers |-> list, mapped |-> <<>>]
    ELSE LET one == createDigitalOceanServer(list, accountId, Head(infos), c, n)
             rest == MapCreate(one.servers, accountId, Tail(infos), c, n + 1)
         IN  [servers |-> rest.servers, mapped |-> <<one.server>> \o rest.mapped]

-----------------------------------------------------------------------------
(* The provider session (DigitalOceanSession): the invocations it receives *)
(* and the provider's answers.                                             *)

Invocation(method, name, region, publicKey, dropletSpec, tag) ==
    [method |-> method, name |-> name, region |-> region, publicKey |-> publicKey,
     dropletSpec |-> dropletSpec, tag |-> tag]

DropletInfo(n, name, region, tags) ==
    [id |-> n, name |-> name, region |-> region, tags |-> tags]

HasTag(droplet, tag) == \E i \in 1..Len(droplet.tags) : droplet.tags[i] = tag

Ok(infos) == <<[ok |-> TRUE, error |-> "", droplets |-> infos]>>
Failure(error) == <<[ok |-> FALSE, error |-> error, droplets |-> <<>>]>>

\* The provider carries out a createDroplet request: the droplet exists from
\* now on, and the response is on its way.
ProviderCreatesDroplet(c) ==
    /\ calls[c].op = "createServer" /\ calls[c].pc = "awaitDroplet"
    /\ calls[c].response = <<>>
    /\ LET info == DropletInfo(droplets.created + 1, calls[c].name, calls[c].region,
                               calls[c].dropletSpec[1].tags)
       IN  /\ droplets' = [list |-> Append(droplets.list, info),
                           created |-> droplets.created + 1]
           /\ calls' = [calls EXCEPT ![c].response = Ok(<<info>>)]
    /\ UNCHANGED <<fields, servers, requests, console, input, output, twin, pickerVars>>

\* The provider answers getDropletsByTag with the droplets that carry the tag.
ProviderListsDroplets(c) ==
    /\ calls[c].op = "listServers" /\ calls[c].pc = "awaitDroplets"
    /\ calls[c].response = <<>>
    /\ calls' = [calls EXCEPT ![c].response =
                    Ok(SelectSeq(droplets.list, LAMBDA d : HasTag(d, SHADOWBOX_TAG)))]
    /\ UNCHANGED <<fields, servers, requests, droplets, console, input,
                   output, twin, pickerVars>>

\* A request fails in transport.
ProviderFails(c, error) ==
    /\ calls[c].pc \in {"awaitDroplet", "awaitDroplets"}
    /\ calls[c].response = <<>>
    /\ calls' = [calls EXCEPT ![c].response = Failure(error)]
    /\ UNCHANGED <<fields, servers, requests, droplets, console, input,
                   output, twin, pickerVars>>

\* A droplet is destroyed at the provider, outside this account object.
DropletDestroyed(i) ==
    /\ i \in 1..Len(droplets.list)
    /\ droplets' = [droplets EXCEPT !.list =
                        SubSeq(droplets.list, 1, i - 1)
                        \o SubSeq(droplets.list, i + 1, Len(droplets.list))]
    /\ UNCHANGED <<fields, servers, calls, requests, console, input,
                   output, twin, pickerVars>>

\* The droplets the provider holds when the account object is first used: made
\* by earlier sessions or by other programs, with or without the tag.
DropletAppears(tags) ==
    /\ calls[1].pc = "idle"
    /\ droplets.created < MaxForeign
    /\ droplets' = [list |-> Append(droplets.list,
                                    DropletInfo(droplets.created + 1, <<>>, "nyc1", tags)),
                    created |-> droplets.created + 1]
    /\ UNCHANGED <<fields, servers, calls, requests, console, input,
                   output, twin, pickerVars>>

-----------------------------------------------------------------------------
(* createServer.                                                           *)

\* The same without the tag.
DropletSpecUntagged(installCommand) ==
    [installCommand |-> installCommand, size |-> MACHINE_SIZE, image |-> IMAGE,
     tags |-> <<>>]

DropletSpec(installCommand) ==
    [installCommand |-> installCommand, size |-> MACHINE_SIZE, image |-> IMAGE,
     tags |-> <<SHADOWBOX_TAG>>]

StripCR(s) == SelectSeq(s, LAMBDA c : c # CR)

DebugMessage(keyPair) ==
    [text |-> "private key for SSH access to new droplet", key |-> StripCR(keyPair.private)]

\* The same with the token trimmed but not tested.
CreateServerSyncUnchecked(token, name, settings) ==
    LET installCommand == getInstallScript(Trim(token), name, settings)
    IN  [pc |-> "awaitKeyPair", error |-> "",
         dropletSpec |-> <<DropletSpec(installCommand.value)>>]

\* The synchronous part of createServer: the install command is composed, which
\* throws on a bad token; otherwise the droplet spec is built and the promise
\* chain set up.
CreateServerSync(token, name, settings) ==
    LET installCommand == getInstallScript(token, name, settings)
    IN  IF installCommand.threw
        THEN [pc |-> "threw", error |-> installCommand.error, dropletSpec |-> <<>>]
        ELSE [pc |-> "awaitKeyPair", error |-> "",
              dropletSpec |-> <<DropletSpec(installCommand.value)>>]

\* The same with the private half sent in debug mode.
OnKeyPairWrongHalf(debug, keyPair, name, region, dropletSpec) ==
    [printed |-> IF debug THEN <<DebugMessage(keyPair)>> ELSE <<>>,
     request |-> Invocation("createDroplet", name, region,
                            IF debug THEN keyPair.private ELSE keyPair.public,
                            <<dropletSpec>>, "")]

\* The first .then callback: what it prints and what it asks of the session.
OnKeyPair(debug, keyPair, name, region, dropletSpec) ==
    [printed |-> IF debug THEN <<DebugMessage(keyPair)>> ELSE <<>>,
     request |-> Invocation("createDroplet", name, region, keyPair.public,
                            <<dropletSpec>>, "")]

\* The same with the record pushed before the answer is looked at.
OnDropletOptimistic(list, accountId, response, c) ==
    LET made == createDigitalOceanServer(list, accountId,
                    IF response.ok THEN response.droplets[1]
                    ELSE DropletInfo(0, <<>>, "", <<>>), c, 1)
    IN  IF response.ok
        THEN [pc |-> "done", servers |-> made.servers, result |-> <<made.server>>,
              error |-> ""]
        ELSE [pc |-> "failed", servers |-> made.servers, result |-> <<>>,
              error |-> response.error]

\* The second .then callback on the answer to createDroplet, as call c: it runs
\* on success only, a rejection passes through the chain.
OnDroplet(list, accountId, response, c) ==
    IF response.ok
    THEN LET made == createDigitalOceanServer(list, accountId, response.droplets[1], c, 1)
         IN  [pc |-> "done", servers |-> made.servers, result |-> <<made.server>>,
              error |-> ""]
    ELSE [pc |-> "failed", servers |-> list, result |-> <<>>, error |-> response.error]

CreateServer(c, region, name) ==
    /\ IsNext(c)
    /\ LET sync == CreateServerSync(accessToken, name, shadowboxSettings)
       IN  calls' = [calls EXCEPT ![c] =
                [IdleCall EXCEPT !.op = "createServer", !.pc = sync.pc, !.name = name,
                                 !.region = region, !.error = sync.error,
                                 !.dropletSpec = sync.dropletSpec]]
    /\ UNCHANGED <<fields, servers, requests, droplets, console, input, output, twin, pickerVars>>

\* onceKeyPair resolves and its callback runs.
CreateServerKeyPair(c) ==
    /\ calls[c].op = "createServer" /\ calls[c].pc = "awaitKeyPair"
    /\ LET then == OnKeyPair(debugMode, KeyPair(c), calls[c].name, calls[c].region,
                             calls[c].dropletSpec[1])
       IN  /\ console' = console \o then.printed
           /\ requests' = Append(requests, then.request)
    /\ calls' = [calls EXCEPT ![c].pc = "awaitDroplet"]
    /\ UNCHANGED <<fields, servers, droplets, input, output, twin, pickerVars>>

\* onceKeyPair rejects: both callbacks are skipped.
CreateServerKeyPairFails(c) ==
    /\ calls[c].op = "createServer" /\ calls[c].pc = "awaitKeyPair"
    /\ calls' = [calls EXCEPT ![c].pc = "failed", ![c].error = KeyGenError]
    /\ UNCHANGED <<fields, servers, requests, droplets, console, input, output, twin, pickerVars>>

\* The answer to createDroplet arrives.
CreateServerResponse(c) ==
    /\ calls[c].op = "createServer" /\ calls[c].pc = "awaitDroplet"
    /\ calls[c].response # <<>>
    /\ LET then == OnDroplet(servers, id, calls[c].response[1], c)
       IN  /\ servers' = then.servers
           /\ calls' = [calls EXCEPT ![c].pc = then.pc, ![c].result = then.result,
                                     ![c].error = then.error]
    /\ UNCHANGED <<fields, requests, droplets, console, input, output, twin, pickerVars>>

-----------------------------------------------------------------------------
(* listServers.                                                            *)

\* The same with fetchFromHost ignored.
ListServersSyncAlwaysFetch(list, fetchFromHost) ==
    [pc |-> "awaitDroplets", result |-> <<>>,
     request |-> <<Invocation("getDropletsByTag", <<>>, "", <<>>, <<>>, SHADOWBOX_TAG)>>]

\* The synchronous part of listServers: the in-memory list at once, or a
\* request for the droplets with the tag.
ListServersSync(list, fetchFromHost) ==
    IF ~fetchFromHost
    THEN [pc |-> "done", result |-> list, request |-> <<>>]
    ELSE [pc |-> "awaitDroplets", result |-> <<>>,
          request |-> <<Invocation("getDropletsByTag", <<>>, "", <<>>, <<>>,
                                   SHADOWBOX_TAG)>>]

\* The same without the reset of this.servers.
OnDropletsMerging(list, accountId, response, c) ==
    IF response.ok
    THEN LET made == MapCreate(list, accountId, response.droplets, c, 1)
         IN  [pc |-> "done", servers |-> made.servers, result |-> made.mapped,
              error |-> ""]
    ELSE [pc |-> "failed", servers |-> list, result |-> <<>>, error |-> response.error]

\* The same with this.servers reset whatever the answer is.
OnDropletsResetFirst(list, accountId, response, c) ==
    IF response.ok
    THEN LET made == MapCreate(<<>>, accountId, response.droplets, c, 1)
         IN  [pc |-> "done", servers |-> made.servers, result |-> made.mapped,
              error |-> ""]
    ELSE [pc |-> "failed", servers |-> <<>>, result |-> <<>>, error |-> response.error]

\* The .then callback on the answer to getDropletsByTag, as call c: it runs on
\* success only, a rejection passes through.
OnDroplets(list, accountId, response, c) ==
    IF response.ok
    THEN LET made == MapCreate(<<>>, accountId, response.droplets, c, 1)
         IN  [pc |-> "done", servers |-> made.servers, result |-> made.mapped,
              error |-> ""]
    ELSE [pc |-> "failed", servers |-> list, result |-> <<>>, error |-> response.error]

ListServers(c, fetchFromHost) ==
    /\ IsNext(c)
    /\ LET sync == ListServersSync(servers, fetchFromHost)
       IN  /\ calls' = [calls EXCEPT ![c] =
                    [IdleCall EXCEPT !.op = "listServers", !.pc = sync.pc,
                                     !.fetchFromHost = fetchFromHost,
                                     !.result = sync.result]]
           /\ requests' = requests \o sync.request
    /\ UNCHANGED <<fields, servers, droplets, console, input, output, twin, pickerVars>>

\* The answer to getDropletsByTag arrives.
ListServersResponse(c) ==
    /\ calls[c].op = "listServers" /\ calls[c].pc = "awaitDroplets"
    /\ calls[c].response # <<>>
    /\ LET then == OnDroplets(servers, id, calls[c].response[1], c)
       IN  /\ servers' = then.servers
           /\ calls' = [calls EXCEPT ![c].pc = then.pc, ![c].result = then.result,
                                     ![c].error = then.error]
    /\ UNCHANGED <<fields, requests, droplets, console, input, output, twin, pickerVars>>

-----
(* The account in use: any calls, in any interleaving.                     *)

NoHelper == input = <<>> /\ output = <<>> /\ twin = <<>> /\ NewPicker

Init ==
    /\ \E token \in Tokens, debug \in BOOLEAN : Constructor(token, Settings, debug)
    /\ NoHelper

Next ==
    \/ \E c \in 1..MaxCalls, region \in RegionIds, name \in ServerNames :
            CreateServer(c, region, name)
    \/ \E c \in 1..MaxCalls : CreateServerKeyPair(c)
    \/ \E c \in 1..MaxCalls : CreateServerKeyPairFails(c)
    \/ \E c \in 1..MaxCalls : CreateServerResponse(c)
    \/ \E c \in 1..MaxCalls, fetchFromHost \in BOOLEAN : ListServers(c, fetchFromHost)
    \/ \E c \in 1..MaxCalls : ListServersResponse(c)
    \/ \E c \in 1..MaxCalls : ProviderCreatesDroplet(c)
    \/ \E c \in 1..MaxCalls : ProviderListsDroplets(c)
    \/ \E c \in 1..MaxCalls, error \in TransportErrors : ProviderFails(c, error)
    \/ \E i \in 1..Len(droplets.list) : DropletDestroyed(i)
    \/ \E tags \in {<<>>, <<SHADOWBOX_TAG>>} : DropletAppears(tags)

Spec == Init /\ [][Next]_vars

-----------------------------------------------------------------------------
(* getName, getStatus and listLocations.                                   *)

StatusStrings == {"active", "pending", "locked", "Active", ""}

\* What getAccount can answer: the email may be missing.
Accounts ==
    [status : StatusStrings, email_verified : BOOLEAN, email : {<<>>, <<"user@example.org">>}]

Sizes == {<<>>, <<MACHINE_SIZE>>, <<"s-2vcpu-2gb">>, <<"s-2vcpu-2gb", MACHINE_SIZE>>}

RegionInfos == [slug : {"nyc1", "ams3"}, available : BOOLEAN, sizes : Sizes]

OkAccount(account) == <<[ok |-> TRUE, error |-> "", account |-> account]>>
OkRegions(regions) == <<[ok |-> TRUE, error |-> "", regions |-> regions]>>

\* Array.prototype.indexOf: the first index (from 0) of x, or -1.
RECURSIVE IndexOfFrom(_, _, _)
IndexOfFrom(s, x, i) ==
    IF i > Len(s) THEN -1
    ELSE IF s[i] = x THEN i - 1 ELSE IndexOfFrom(s, x, i + 1)

IndexOf(s, x) == IndexOfFrom(s, x, 1)

\* The same without the test of the machine size.
RegionOptionAnySize(info) ==
    [cloudLocation |-> [id |-> info.slug], available |-> info.available]

\* info => ({cloudLocation: new Region(info.slug), available: ...})
RegionOption(info) ==
    [cloudLocation |-> [id |-> info.slug],
     available |-> info.available /\ IndexOf(info.sizes, MACHINE_SIZE) # -1]

\* regions.map(...)
RegionOptions(regions) == [i \in 1..Len(regions) |-> RegionOption(regions[i])]

\* The same with the two tests in the other order.
StatusEmailFirst(account) ==
    IF ~account.email_verified THEN "EMAIL_UNVERIFIED"
    ELSE IF account.status = "active" THEN "ACTIVE"
    ELSE "MISSING_BILLING_INFORMATION"

\* The body of getStatus after the await.
Status(account) ==
    IF account.status = "active" THEN "ACTIVE"
    ELSE IF ~account.email_verified THEN "EMAIL_UNVERIFIED"
    ELSE "MISSING_BILLING_INFORMATION"

\* getName, getStatus or listLocations is called: the request goes out.
Query(c, op) ==
    /\ IsNext(c)
    /\ op \in {"getName", "getStatus", "listLocations"}
    /\ calls' = [calls EXCEPT ![c] = [IdleCall EXCEPT !.op = op, !.pc = "awaitInfo"]]
    /\ requests' = Append(requests,
            Invocation(IF op = "listLocations" THEN "getRegionInfo" ELSE "getAccount",
                       <<>>, "", <<>>, <<>>, ""))
    /\ UNCHANGED <<fields, servers, droplets, console, input, output, twin, pickerVars>>

ProviderGivesAccount(c, account) ==
    /\ calls[c].op \in {"getName", "getStatus"} /\ calls[c].pc = "awaitInfo"
    /\ calls[c].response = <<>>
    /\ calls' = [calls EXCEPT ![c].response = OkAccount(account)]
    /\ UNCHANGED <<fields, servers, requests, droplets, console, input, output, twin, pickerVars>>

ProviderGivesRegions(c, regions) ==
    /\ calls[c].op = "listLocations" /\ calls[c].pc = "awaitInfo"
    /\ calls[c].response = <<>>
    /\ calls' = [calls EXCEPT ![c].response = OkRegions(regions)]
    /\ UNCHANGED <<fields, servers, requests, droplets, console, input, output, twin, pickerVars>>

ProviderFailsInfo(c, error) ==
    /\ calls[c].pc = "awaitInfo"
    /\ calls[c].response = <<>>
    /\ calls' = [calls EXCEPT ![c].response = Failure(error)]
    /\ UNCHANGED <<fields, servers, requests, droplets, console, input, output, twin, pickerVars>>

\* The same with the reset of this.servers that the listServers callback has.
QueryResponseResetting(c) ==
    /\ calls[c].pc = "awaitInfo"
    /\ calls[c].response # <<>>
    /\ LET response == calls[c].response[1]
       IN  IF ~response.ok
           THEN calls' = [calls EXCEPT ![c].pc = "failed", ![c].error = response.error]
           ELSE calls' = [calls EXCEPT ![c].pc = "done", ![c].result =
                    IF calls[c].op = "getName" THEN response.account.email
                    ELSE IF calls[c].op = "getStatus" THEN <<Status(response.account)>>
                    ELSE RegionOptions(response.regions)]
    /\ servers' = <<>>
    /\ UNCHANGED <<fields, requests, droplets, console, input, output, twin, pickerVars>>

\* The await returns, or throws what the session threw.
QueryResponse(c) ==
    /\ calls[c].pc = "awaitInfo"
    /\ calls[c].response # <<>>
    /\ LET response == calls[c].response[1]
       IN  IF ~response.ok
           THEN calls' = [calls EXCEPT ![c].pc = "failed", ![c].error = response.error]
           ELSE calls' = [calls EXCEPT ![c].pc = "done", ![c].result =
                    IF calls[c].op = "getName" THEN response.account.email
                    ELSE IF calls[c].op = "getStatus" THEN <<Status(response.account)>>
                    ELSE RegionOptions(response.regions)]
    /\ UNCHANGED <<fields, servers, requests, droplets, console, input, output, twin, pickerVars>>

\* One query on a fresh account.
NextQuery ==
    \/ \E op \in {"getName", "getStatus", "listLocations"} : Query(1, op)
    \/ \E account \in Accounts : ProviderGivesAccount(1, account)
    \/ \E regions \in SeqsUpTo(RegionInfos, MaxRegions) : ProviderGivesRegions(1, regions)
    \/ \E error \in TransportErrors : ProviderFailsInfo(1, error)
    \/ QueryResponse(1)

SpecQuery == Init /\ [][NextQuery]_vars

-----------------------------------------------------------------------------
(* Every operation of the account, in any interleaving. The provider's     *)
(* answers to getAccount and getRegionInfo are one of each kind here, it   *)
(* fails in one way, and its droplets are those this account creates.      *)

\* getId() and getAccessToken(): the field, at once.
Accessor(c, op) ==
    /\ IsNext(c)
    /\ op \in {"getId", "getAccessToken"}
    /\ calls' = [calls EXCEPT ![c] =
            [IdleCall EXCEPT !.op = op, !.pc = "done",
                             !.result = IF op = "getId" THEN <<id>> ELSE <<accessToken>>]]
    /\ UNCHANGED <<fields, servers, requests, droplets, console, input, output, twin, pickerVars>>

AccountSamples ==
    {[status |-> "active", email_verified |-> FALSE, email |-> <<"user@example.org">>],
     [status |-> "pending", email_verified |-> TRUE, email |-> <<>>]}

RegionSamples ==
    {<<[slug |-> "nyc1", available |-> TRUE, sizes |-> <<MACHINE_SIZE>>],
       [slug |-> "ams3", available |-> FALSE, sizes |-> <<>>]>>}

NextAll ==
    \/ \E c \in 1..MaxCalls, region \in RegionIds, name \in ServerNames :
            CreateServer(c, region, name)
    \/ \E c \in 1..MaxCalls : CreateServerKeyPair(c)
    \/ \E c \in 1..MaxCalls : CreateServerKeyPairFails(c)
    \/ \E c \in 1..MaxCalls : CreateServerResponse(c)
    \/ \E c \in 1..MaxCalls, fetchFromHost \in BOOLEAN : ListServers(c, fetchFromHost)
    \/ \E c \in 1..MaxCalls : ListServersResponse(c)
    \/ \E c \in 1..MaxCalls : ProviderCreatesDroplet(c)
    \/ \E c \in 1..MaxCalls : ProviderListsDroplets(c)
    \/ \E c \in 1..MaxCalls : ProviderFails(c, "ECONNRESET")
    \/ \E c \in 1..MaxCalls, op \in {"getId", "getAccessToken"} : Accessor(c, op)
    \/ \E c \in 1..MaxCalls, op \in {"getName", "getStatus", "listLocations"} : Query(c, op)
    \/ \E c \in 1..MaxCalls, account \in AccountSamples : ProviderGivesAccount(c, account)
    \/ \E c \in 1..MaxCalls, regions \in RegionSamples : ProviderGivesRegions(c, regions)
    \/ \E c \in 1..MaxCalls : ProviderFailsInfo(c, "ECONNRESET")
    \/ \E c \in 1..MaxCalls : QueryResponse(c)

SpecAll == Init /\ [][NextAll]_vars

-----------------------------------------------------------------------------
(* The helper functions on their own: every input up to a length.          *)

\* a Z 7 _ - / space newline ' ; é
TokenAlphabet == {97, 90, 55, 95, 45, 47, 32, 10, 39, 59, 233}

\* a ' \ é €, and the two halves of U+1F600
NameAlphabet == {97, 39, 92, 233, 8364, 55357, 56832}

\* The six characters é.
LiteralEscape == <<92, 117, 48, 48, 101, 57>>

AtRest == Constructor(<<97, 55>>, Settings, FALSE)

InitSanitize ==
    /\ AtRest
    /\ twin = <<>> /\ NewPicker
    /\ input \in SeqsUpTo(TokenAlphabet, MaxTokenLen)
    /\ output = <<>>

Sanitize ==
    /\ output = <<>>
    /\ output' = <<sanitizeDigitalOceanToken(input)>>
    /\ UNCHANGED <<accountVars, input, twin, pickerVars>>

SpecSanitize == InitSanitize /\ [][Sanitize]_vars

InitEscape ==
    /\ AtRest
    /\ twin = <<>> /\ NewPicker
    /\ input \in SeqsUpTo(NameAlphabet, MaxNameLen) \cup {LiteralEscape, <<97>> \o LiteralEscape}
    /\ output = <<>>

Escape ==
    /\ output = <<>>
    /\ output' = <<bashEscape(input)>>
    /\ UNCHANGED <<accountVars, input, twin, pickerVars>>

SpecEscape == InitEscape /\ [][Escape]_vars

\* Settings an account can be constructed with: each optional field absent,
\* present with a falsy value, or present with another value.
SettingsSamples ==
    [imageId : {<<>>, <<"">>, <<"outline/shadowbox:stable">>},
     watchtowerRefreshSeconds : {<<>>, <<0>>, <<30>>},
     sentryApiUrl : {<<>>, <<"">>, <<"https://sentry.example">>},
     metricsUrl : {<<>>, <<"">>, <<"https://metrics.example">>}]

InitScript ==
    /\ \E settings \in SettingsSamples : Constructor(<<97, 55>>, settings, FALSE)
    /\ twin = <<>> /\ NewPicker
    /\ input \in {<<97>>, <<97, 233>>}
    /\ output = <<>>

\* getInstallScript(this.accessToken, name, this.shadowboxSettings), as
\* createServer calls it.
InstallScript ==
    /\ output = <<>>
    /\ output' = <<getInstallScript(accessToken, input, shadowboxSettings)>>
    /\ UNCHANGED <<accountVars, input, twin, pickerVars>>

SpecScript == InitScript /\ [][InstallScript]_vars

-----------------------------------------------------------------------------
(* Two runs of createServer on accounts that differ in debugMode only: the *)
(* same token, arguments, registry, key pair and provider answer.          *)

TwinServers ==
    {<<>>, <<DigitalOceanServer(AccountId \o ":9", DropletInfo(9, <<97>>, "nyc1",
                                                              <<SHADOWBOX_TAG>>), <<0, 1>>)>>}

TwinInputs ==
    [token : Tokens,
     name : {<<97>>, <<97, 233>>},
     region : {"nyc1", "ams3"},
     keyPair : {<<>>, <<KeyPair(1)>>},
     answer : {"ok"} \cup TransportErrors,
     servers : TwinServers]

\* The provider's answer to the run's request.
TwinAnswer(in) ==
    IF in.answer = "ok"
    THEN Ok(<<DropletInfo(1, in.name, in.region, <<SHADOWBOX_TAG>>)>>)
    ELSE Failure(in.answer)

TwinRun(list) ==
    [pc |-> "idle", dropletSpec |-> <<>>, printed |-> <<>>, requests |-> <<>>,
     servers |-> list, result |-> <<>>, error |-> ""]

InitTwin ==
    /\ AtRest
    /\ input = <<>> /\ output = <<>> /\ NewPicker
    /\ \E in \in TwinInputs :
          twin = [in |-> in, run |-> [debug \in BOOLEAN |-> TwinRun(in.servers)]]

TwinCreateServer(debug) ==
    /\ twin.run[debug].pc = "idle"
    /\ LET sync == CreateServerSync(twin.in.token, twin.in.name, shadowboxSettings)
       IN  twin' = [twin EXCEPT !.run[debug].pc = sync.pc,
                                !.run[debug].error = sync.error,
                                !.run[debug].dropletSpec = sync.dropletSpec]
    /\ UNCHANGED <<accountVars, input, output, pickerVars>>

TwinKeyPair(debug) ==
    /\ twin.run[debug].pc = "awaitKeyPair"
    /\ twin.in.keyPair # <<>>
    /\ LET then == OnKeyPair(debug, twin.in.keyPair[1], twin.in.name, twin.in.region,
                             twin.run[debug].dropletSpec[1])
       IN  twin' = [twin EXCEPT !.run[debug].pc = "awaitDroplet",
                                !.run[debug].printed = @ \o then.printed,
                                !.run[debug].requests = Append(@, then.request)]
    /\ UNCHANGED <<accountVars, input, output, pickerVars>>

TwinKeyPairFails(debug) ==
    /\ twin.run[debug].pc = "awaitKeyPair"
    /\ twin.in.keyPair = <<>>
    /\ twin' = [twin EXCEPT !.run[debug].pc = "failed", !.run[debug].error = KeyGenError]
    /\ UNCHANGED <<accountVars, input, output, pickerVars>>

TwinResponse(debug) ==
    /\ twin.run[debug].pc = "awaitDroplet"
    /\ LET then == OnDroplet(twin.run[debug].servers, id, TwinAnswer(twin.in)[1], 1)
       IN  twin' = [twin EXCEPT !.run[debug].pc = then.pc,
                                !.run[debug].servers = then.servers,
                                !.run[debug].result = then.result,
                                !.run[debug].error = then.error]
    /\ UNCHANGED <<accountVars, input, output, pickerVars>>

NextTwin ==
    \/ \E debug \in BOOLEAN : TwinCreateServer(debug)
    \/ \E debug \in BOOLEAN : TwinKeyPair(debug)
    \/ \E debug \in BOOLEAN : TwinKeyPairFails(debug)
    \/ \E debug \in BOOLEAN : TwinResponse(debug)

SpecTwin == InitTwin /\ [][NextTwin]_vars

-----------------------------------------------------------------------------
(* The region picker step (OutlineRegionPicker): its properties, the      *)
(* user's gestures on what it renders, and the events it dispatches.       *)

MaxOptions == 2
MaxEvents == 2

\* CloudLocationOption values the application can hand to the picker.
OptionSamples ==
    [cloudLocation : {[id |-> "nyc1"], [id |-> "ams3"]}, available : BOOLEAN]

\* `${index}`, the value attribute of a radio input: decimal digits.
RECURSIVE ToDecimal(_)
ToDecimal(n) ==
    IF n < 10 THEN <<48 + n>> ELSE ToDecimal(n \div 10) \o <<48 + (n % 10)>>

\* Number.parseInt(value, 10) of a string that starts with a digit: the
\* number its leading digits spell.
RECURSIVE ParseDigits(_, _)
ParseDigits(s, acc) ==
    IF s = <<>> \/ Head(s) \notin 48..57 THEN acc
    ELSE ParseDigits(Tail(s), 10 * acc + (Head(s) - 48))

parseInt(value) == ParseDigits(value, 0)

_isCreateButtonEnabled(isCreatingServer, index) == ~isCreatingServer /\ index >= 0

\* The application assigns the options property.
SetOptions(list) ==
    /\ options' = list
    /\ UNCHANGED <<selectedIndex, isServerBeingCreated, dispatched>>
    /\ UNCHANGED <<accountVars, input, output, twin>>

\* The user checks the radio input rendered for options[index] (indices from
\* 0, as in the source), which is disabled when the option is not available.
_locationSelected(index) ==
    /\ index \in 0..(Len(options) - 1)
    /\ options[index + 1].available
    /\ selectedIndex' = parseInt(ToDecimal(index))
    /\ UNCHANGED <<options, isServerBeingCreated, dispatched>>
    /\ UNCHANGED <<accountVars, input, output, twin>>

\* The user taps the create button, which takes taps when it is not disabled.
\* this.options[this.selectedIndex] is undefined past the end of the list, and
\* reading its cloudLocation throws before an event is made.
_handleCreateServerTap ==
    /\ _isCreateButtonEnabled(isServerBeingCreated, selectedIndex)
    /\ Len(dispatched) < MaxEvents
    /\ isServerBeingCreated' = TRUE
    /\ dispatched' =
          IF selectedIndex < Len(options)
          THEN Append(dispatched,
                      [type |-> "RegionSelected",
                       selectedLocation |-> options[selectedIndex + 1].cloudLocation])
          ELSE dispatched
    /\ UNCHANGED <<options, selectedIndex>>
    /\ UNCHANGED <<accountVars, input, output, twin>>

reset ==
    /\ isServerBeingCreated' = FALSE
    /\ selectedIndex' = -1
    /\ UNCHANGED <<options, dispatched>>
    /\ UNCHANGED <<accountVars, input, output, twin>>

InitPicker ==
    /\ AtRest
    /\ NoHelper

NextPicker ==
    \/ \E list \in SeqsUpTo(OptionSamples, MaxOptions) : SetOptions(list)
    \/ \E index \in 0..(MaxOptions - 1) : _locationSelected(index)
    \/ _handleCreateServerTap
    \/ reset

SpecPicker == InitPicker /\ [][NextPicker]_vars

-----------------------------------------------------------------------------
(* Properties of the registry.                                             *)

Calls == 1..MaxCalls

\* "{accountId}:{providerInstanceId}"
CompositeKey(droplet) == AccountId \o ":" \o ToString(droplet.id)

\* The objects the account has handed out or holds, in the current state.
KnownObjects ==
    {servers[i].obj : i \in 1..Len(servers)}
    \cup UNION {{calls[c].result[i].obj : i \in 1..Len(calls[c].result)} :
                c \in {k \in Calls : calls[k].op \in {"createServer", "listServers"}}}

\* Call c is a listServers(true) whose answer is handled in this step, with success.
Refreshes(c) ==
    /\ calls[c].op = "listServers" /\ calls[c].pc = "awaitDroplets"
    /\ calls'[c].pc = "done"

\* C1: when listServers(true) completes with provider result L, the registry is
\* exactly one freshly constructed record per element of L, in L's order; what
\* it held before is gone unless L names it again, and then as a new object; the
\* call returns those records; L was asked for by the provisioning tag.
C1_RefreshReplaces ==
    [][\A c \in Calls : Refreshes(c) =>
          LET L == calls[c].response[1].droplets
          IN  /\ Len(servers') = Len(L)
              /\ \A i \in 1..Len(L) :
                    /\ servers'[i].id = CompositeKey(L[i])
                    /\ servers'[i].dropletInfo = L[i]
                    /\ servers'[i].obj \notin KnownObjects
                    /\ \A j \in 1..Len(L) : j # i => servers'[j].obj # servers'[i].obj
              /\ calls'[c].result = servers'
              /\ \A i \in 1..Len(requests) :
                    requests[i].method = "getDropletsByTag" => requests[i].tag = "shadowbox"
      ]_vars

\* A refresh has dropped a record the registry held and kept one droplet.
C1_Witness ==
    \E c \in Calls :
        /\ calls[c].op = "listServers" /\ calls[c].fetchFromHost /\ calls[c].pc = "done"
        /\ calls[c].result = servers
        /\ Len(servers) >= 1
        /\ \E k \in Calls :
              /\ calls[k].op = "createServer" /\ calls[k].pc = "done"
              /\ \A i \in 1..Len(servers) : servers[i].id # calls[k].result[1].id

\* Call c is a createServer whose createDroplet answer is handled in this step,
\* with success.
Creates(c) ==
    /\ calls[c].op = "createServer" /\ calls[c].pc = "awaitDroplet"
    /\ calls'[c].pc = "done"

\* C2: a createServer that succeeds appends exactly one record, keyed by the
\* account id and the id in the provider's create response, leaves the records
\* the registry had in place and in order, and returns that record.
C2_CreateAppendsOne ==
    [][\A c \in Calls : Creates(c) =>
          LET n == Len(servers)
          IN  /\ Len(servers') = n + 1
              /\ SubSeq(servers', 1, n) = servers
              /\ servers'[n + 1].id = CompositeKey(calls[c].response[1].droplets[1])
              /\ servers'[n + 1].obj \notin KnownObjects
              /\ calls'[c].result = <<servers'[n + 1]>>
      ]_vars

\* A createServer has succeeded on a registry that already held a record.
C2_Witness ==
    \E c \in Calls :
        /\ calls[c].op = "createServer" /\ calls[c].pc = "done"
        /\ Len(servers) = 2
        /\ servers[2] = calls[c].result[1]
        /\ servers[1].id # servers[2].id

\* Call c is a createServer that takes a step which does not complete it with
\* success.
StepsWithoutSuccess(c) ==
    /\ calls'[c] # calls[c]
    /\ calls'[c].op = "createServer"
    /\ calls'[c].pc # "done"

\* C3: when key-pair generation or the create request fails, createServer fails
\* with that error, and no step of the call has touched the registry: it holds
\* no record made by the call, and the call returns none.
C3_FailedCreateLeavesRegistry ==
    [][\A c \in Calls :
          /\ StepsWithoutSuccess(c) => servers' = servers
          /\ (StepsWithoutSuccess(c) /\ calls'[c].pc = "failed") =>
                /\ calls'[c].result = <<>>
                /\ \A i \in 1..Len(servers') : servers'[i].obj[1] # c
                /\ calls'[c].error =
                      IF calls[c].pc = "awaitDroplet" THEN calls[c].response[1].error
                      ELSE "key generation failed"
      ]_vars

\* A create request has failed in transport while the registry held a record.
C3_Witness ==
    \E c \in Calls :
        /\ calls[c].op = "createServer" /\ calls[c].pc = "failed"
        /\ calls[c].response # <<>>
        /\ calls[c].error = calls[c].response[1].error
        /\ Len(servers) >= 1

\* The characters [A-Za-z0-9_/-], and the white space of ASCII.
TokenCharacters == (65..90) \cup (97..122) \cup (48..57) \cup {95, 47, 45}
WhiteSpace == {9, 10, 11, 12, 13, 32}

\* s is white space, then s[i..j] of token characters only, then white space.
Surrounds(s, i, j) ==
    /\ 1 <= i /\ i <= j /\ j <= Len(s)
    /\ \A k \in 1..Len(s) :
          IF k < i \/ k > j THEN s[k] \in WhiteSpace ELSE s[k] \in TokenCharacters

\* The trimmed token is empty or has a character outside [A-Za-z0-9_/-].
BadToken(token) == ~\E i, j \in 1..Len(token) : Surrounds(token, i, j)

\* C4: with a token that fails sanitization the account is constructed all the
\* same; each createServer fails with the invalid-credential error in its first
\* step, which sends nothing to the provider and leaves the registry alone, and
\* takes no further step; no create request is ever submitted.
C4_BadTokenFailsBeforeProvider ==
    /\ [](BadToken(accessToken) =>
            /\ \A c \in Calls : calls[c].op = "createServer" =>
                  /\ calls[c].pc = "threw"
                  /\ calls[c].error = "Invalid DigitalOcean Token"
                  /\ calls[c].result = <<>>
            /\ \A i \in 1..Len(requests) : requests[i].method # "createDroplet"
            /\ \A i \in 1..Len(servers) : calls[servers[i].obj[1]].op # "createServer")
    /\ [][\A c \in Calls :
            /\ (calls[c].pc = "idle" /\ calls'[c].pc = "threw") =>
                  requests' = requests /\ servers' = servers
            /\ calls[c].pc = "threw" => calls'[c] = calls[c]
         ]_vars

\* A createServer has thrown on a bad token, on an account that had been in use.
C4_Witness ==
    /\ BadToken(accessToken)
    /\ \E c \in Calls : calls[c].op = "createServer" /\ calls[c].pc = "threw"
    /\ Len(requests) >= 1

\* Call c is made in this step as listServers(false).
ListsFromMemory(c) ==
    /\ calls[c].pc = "idle"
    /\ calls'[c].op = "listServers" /\ ~calls'[c].fetchFromHost

\* C5: listServers(false) returns at once with exactly the registry of the
\* moment, sends nothing to the provider and leaves the registry as it is.
C5_CachedListIsRegistry ==
    [][\A c \in Calls : ListsFromMemory(c) =>
          /\ calls'[c].pc = "done"
          /\ calls'[c].result = servers
          /\ requests' = requests
          /\ servers' = servers
      ]_vars

\* listServers(false) has returned a registry that is not empty.
C5_Witness ==
    \E c \in Calls :
        /\ calls[c].op = "listServers" /\ ~calls[c].fetchFromHost /\ calls[c].pc = "done"
        /\ calls[c].result = servers
        /\ Len(servers) >= 1

-----------------------------------------------------------------------------
(* Properties of the helper functions.                                     *)

\* C6: a token of characters in [A-Za-z0-9_/-], at least one, with white space
\* around it or not, is accepted and comes back trimmed and otherwise unchanged;
\* every other token (empty once trimmed, or with any other character, white
\* space inside included) is refused with the invalid-credential error.
C6_TokenSanitization ==
    output # <<>> =>
        IF BadToken(input)
        THEN /\ output[1].threw
             /\ output[1].error = "Invalid DigitalOcean Token"
        ELSE /\ ~output[1].threw
             /\ \A i, j \in 1..Len(input) :
                    Surrounds(input, i, j) => output[1].value = SubSeq(input, i, j)

\* A token with white space on both sides has been accepted and trimmed.
C6_Witness ==
    /\ output # <<>>
    /\ ~output[1].threw
    /\ Len(input) = Len(output[1].value) + 2
    /\ input[1] = 32

IsHex(c) == c \in (48..57) \cup (97..102) \cup (65..70)
HexValue(c) == IF c <= 57 THEN c - 48 ELSE IF c <= 70 THEN c - 55 ELSE c - 87

\* What the shell's printf makes of the text: each \uXXXX becomes the
\* character of that value, everything else stays.
RECURSIVE DecodeEscapes(_)
DecodeEscapes(s) ==
    IF s = <<>> THEN <<>>
    ELSE IF /\ Len(s) >= 6
            /\ s[1] = 92 /\ s[2] = 117
            /\ \A k \in 3..6 : IsHex(s[k])
         THEN <<4096 * HexValue(s[3]) + 256 * HexValue(s[4]) + 16 * HexValue(s[5])
                + HexValue(s[6])>> \o DecodeEscapes(SubSeq(s, 7, Len(s)))
         ELSE <<Head(s)>> \o DecodeEscapes(Tail(s))

\* C7: escaping a name and decoding the escapes gives the name back, and a
\* name of ASCII characters only is escaped to itself.
C7_EscapeRoundTrips ==
    output # <<>> =>
        /\ DecodeEscapes(output[1]) = input
        /\ (\A i \in 1..Len(input) : input[i] <= 127) => output[1] = input

\* C8: listLocations gives one option per region the provider reports, in the
\* provider's order, duplicates kept, and an option is available exactly when
\* the provider says the region is and its sizes include s-1vcpu-1gb.
C8_RegionOptions ==
    (calls[1].op = "listLocations" /\ calls[1].pc = "done") =>
        LET regions == calls[1].response[1].regions
            listed == calls[1].result
        IN  /\ Len(listed) = Len(regions)
            /\ \A i \in 1..Len(regions) :
                  /\ listed[i].cloudLocation.id = regions[i].slug
                  /\ listed[i].available <=>
                        /\ regions[i].available
                        /\ \E k \in 1..Len(regions[i].sizes) :
                              regions[i].sizes[k] = "s-1vcpu-1gb"

\* Two regions of the same slug have come back in order, the first available,
\* the second reachable but without the machine size.
C8_Witness ==
    /\ calls[1].op = "listLocations" /\ calls[1].pc = "done"
    /\ Len(calls[1].result) = 2
    /\ calls[1].result[1].cloudLocation.id = calls[1].result[2].cloudLocation.id
    /\ calls[1].result[1].available
    /\ ~calls[1].result[2].available
    /\ calls[1].response[1].regions[2].available

\* C9: getStatus gives ACTIVE when the status is "active", whatever
\* email_verified is; for any other status string EMAIL_UNVERIFIED when the
\* email is not verified and MISSING_BILLING_INFORMATION when it is.
C9_StatusPrecedence ==
    (calls[1].op = "getStatus" /\ calls[1].pc = "done") =>
        LET account == calls[1].response[1].account
        IN  /\ account.status = "active" => calls[1].result = <<"ACTIVE">>
            /\ (account.status # "active" /\ ~account.email_verified) =>
                  calls[1].result = <<"EMAIL_UNVERIFIED">>
            /\ (account.status # "active" /\ account.email_verified) =>
                  calls[1].result = <<"MISSING_BILLING_INFORMATION">>

\* An active account with an unverified email has been reported ACTIVE.
C9_Witness ==
    /\ calls[1].op = "getStatus" /\ calls[1].pc = "done"
    /\ calls[1].response[1].account.status = "active"
    /\ ~calls[1].response[1].account.email_verified
    /\ calls[1].result = <<"ACTIVE">>

\* The text k occurs in the text s.
Occurs(k, s) == \E i \in 1..Len(s) : i + Len(k) - 1 <= Len(s) /\ SubSeq(s, i, i + Len(k) - 1) = k

\* The text k occurs in a field of the createDroplet request r.
Carries(r, k) ==
    \/ Occurs(k, r.name)
    \/ Occurs(k, r.publicKey)
    \/ \E i \in 1..Len(r.dropletSpec[1].installCommand) :
          Occurs(k, r.dropletSpec[1].installCommand[i].printf)

\* C10: the private key is printed only by the run in debug mode; no request
\* of either run carries it, with its carriage returns or without; and at the
\* same point of the call the two runs have sent the same requests, hold the
\* same registry and have the same outcome.
C10_DebugModeChangesNothing ==
    twin # <<>> =>
        LET debugRun == twin.run[TRUE]
            plainRun == twin.run[FALSE]
        IN  /\ plainRun.printed = <<>>
            /\ \A debug \in BOOLEAN : \A i \in 1..Len(twin.run[debug].requests) :
                  /\ ~Carries(twin.run[debug].requests[i], twin.in.keyPair[1].private)
                  /\ ~Carries(twin.run[debug].requests[i],
                              SelectSeq(twin.in.keyPair[1].private, LAMBDA c : c # 13))
            /\ debugRun.pc = plainRun.pc =>
                  /\ debugRun.requests = plainRun.requests
                  /\ debugRun.servers = plainRun.servers
                  /\ debugRun.result = plainRun.result
                  /\ debugRun.error = plainRun.error

\* Both runs have created the server, and the run in debug mode has printed
\* the private key.
C10_Witness ==
    /\ twin # <<>>
    /\ twin.run[TRUE].pc = "done" /\ twin.run[FALSE].pc = "done"
    /\ Len(twin.run[TRUE].printed) = 1
    /\ Len(twin.run[TRUE].requests) = 1
    /\ Len(twin.run[TRUE].servers) = 2

-----------------------------------------------------------------------------
(* Properties of the operations together.                                  *)

\* The call is one of the operations that only read.
ReadsOnly(call) ==
    \/ call.op \in {"getId", "getAccessToken", "getName", "getStatus", "listLocations"}
    \/ call.op = "listServers" /\ ~call.fetchFromHost

\* C11: no step of getId, getAccessToken, getName, getStatus, listLocations or
\* listServers(false), the provider's answer and a failure included, changes
\* the registry, whatever else is in progress; no step at all changes the
\* account's id or access token; the two accessors return them as they are.
C11_ReadsLeaveRegistry ==
    [][/\ id' = id
       /\ accessToken' = accessToken
       /\ \A c \in Calls :
             (calls'[c] # calls[c] /\ ReadsOnly(calls'[c])) =>
                /\ servers' = servers
                /\ calls'[c].op = "getId" => calls'[c].result = <<id>>
                /\ calls'[c].op = "getAccessToken" => calls'[c].result = <<accessToken>>
      ]_vars

\* A query of the provider has failed while the registry held a record.
C11_Witness ==
    /\ Len(servers) >= 1
    /\ \E c \in Calls : /\ calls[c].op \in {"getName", "getStatus", "listLocations"}
                        /\ calls[c].pc = "failed"

\* The createDroplet requests the session has received.
CreateRequests(log) == {i \in 1..Len(log) : log[i].method = "createDroplet"}

\* The createServer calls that have gone past the key pair.
PastKeyPair ==
    {c \in Calls : /\ calls[c].op = "createServer"
                   /\ \/ calls[c].pc \in {"awaitDroplet", "done"}
                      \/ calls[c].pc = "failed" /\ calls[c].response # <<>>}

\* C12: the session has received one createDroplet request for each createServer
\* call that has gone past the key pair and none for the others; the request
\* is submitted in the step that handles the key pair, when the install
\* command is already in the droplet spec, and it carries the call's name and
\* region, the public half of the call's key pair, and the spec with the
\* install command, size "s-1vcpu-1gb", image "docker-18-04" and tags <<"shadowbox">>.
C12_CreateRequestOnceAfterKeyPair ==
    [][/\ Cardinality(CreateRequests(requests')) = Cardinality(PastKeyPair')
       /\ CreateRequests(requests') # CreateRequests(requests) =>
             \E c \in Calls :
                /\ calls[c].op = "createServer" /\ calls[c].pc = "awaitKeyPair"
                /\ calls[c].dropletSpec # <<>>
                /\ calls'[c].pc = "awaitDroplet"
                /\ \A k \in Calls \ {c} : calls'[k] = calls[k]
                /\ requests' = Append(requests,
                      [method |-> "createDroplet", name |-> calls[c].name,
                       region |-> calls[c].region, publicKey |-> KeyPair(c).public,
                       dropletSpec |->
                          <<[installCommand |->
                                getInstallScript(accessToken, calls[c].name,
                                                 shadowboxSettings).value,
                             size |-> "s-1vcpu-1gb", image |-> "docker-18-04",
                             tags |-> <<"shadowbox">>]>>,
                       tag |-> ""])
      ]_vars

\* Two createServer calls have each submitted their request: one has its
\* record, the other waits for the provider.
C12_Witness ==
    /\ Cardinality(CreateRequests(requests)) = 2
    /\ \E c \in Calls : calls[c].op = "createServer" /\ calls[c].pc = "done"
    /\ \E c \in Calls : calls[c].op = "createServer" /\ calls[c].pc = "awaitDroplet"

\* C13: a refresh that completes when a createServer call has already returned
\* its record, on a provider result that does not name that droplet, leaves a
\* registry without a record of that droplet; and there is an interleaving of
\* one createServer and one listServers(true), both in flight at once, that
\* ends so while the droplet still exists.
C13_RefreshDropsCreatedRecord ==
    [][\A k \in Calls : Refreshes(k) =>
          \A c \in Calls :
             (/\ calls[c].op = "createServer" /\ calls[c].pc = "done"
              /\ \A i \in 1..Len(calls[k].response[1].droplets) :
                    CompositeKey(calls[k].response[1].droplets[i])
                       # calls[c].result[1].id) =>
                \A j \in 1..Len(servers') :
                   /\ servers'[j] # calls[c].result[1]
                   /\ servers'[j].id # calls[c].result[1].id
      ]_vars

\* Both calls have finished with success, the refresh was asked for before the
\* create's request was sent, the droplet exists at the provider, and the
\* registry has no record of it.
C13_Witness ==
    \E c, k \in Calls :
        /\ calls[c].op = "createServer" /\ calls[c].pc = "done"
        /\ calls[k].op = "listServers" /\ calls[k].fetchFromHost /\ calls[k].pc = "done"
        /\ \E i, j \in 1..Len(requests) :
              /\ i < j
              /\ requests[i].method = "getDropletsByTag"
              /\ requests[j].method = "createDroplet"
        /\ \E i \in 1..Len(droplets.list) :
              CompositeKey(droplets.list[i]) = calls[c].result[1].id
        /\ \A j \in 1..Len(servers) : servers[j].id # calls[c].result[1].id
        /\ servers = calls[k].result

\* The listServers(true) calls that have completed with success.
RefreshesDone ==
    {k \in Calls : calls[k].op = "listServers" /\ calls[k].fetchFromHost
                   /\ calls[k].pc = "done"}

\* C14: while no createServer has been called, the registry is what it was at
\* construction until a listServers(true) completes, and from then on it is
\* the whole wrapped result of one completed listServers(true): never records
\* of two results together, never a part of one. The step that handles a
\* response makes the registry that call's result, whichever call was issued
\* first.
C14_OverlappingRefreshesLastWins ==
    /\ [](  (\A c \in Calls : calls[c].op # "createServer") =>
               IF RefreshesDone = {} THEN servers = <<>>
               ELSE \E k \in RefreshesDone : servers = calls[k].result)
    /\ [][\A k \in Calls : Refreshes(k) => servers' = calls'[k].result]_vars

\* Two refreshes overlapped, the one issued first was handled last, and the
\* registry is its result, which differs from the other's.
C14_Witness ==
    /\ RefreshesDone = {1, 2}
    /\ servers = calls[1].result
    /\ Len(calls[1].result) = 1
    /\ calls[2].result = <<>>

\* C15: when the answer to getDropletsByTag is a failure, the step that handles
\* it fails the call with the provider's error, sends no request and leaves
\* the registry as it was; a failed call takes no further step, and the
\* session has received one getDropletsByTag request for each listServers(true).
C15_FailedRefreshKeepsRegistry ==
    [][/\ \A c \in Calls :
             (/\ calls[c].op = "listServers" /\ calls[c].pc = "awaitDroplets"
              /\ calls'[c].pc # "awaitDroplets") =>
                (~calls[c].response[1].ok =>
                    /\ calls'[c].pc = "failed"
                    /\ calls'[c].error = calls[c].response[1].error
                    /\ calls'[c].error \in TransportErrors
                    /\ servers' = servers
                    /\ requests' = requests)
       /\ \A c \in Calls : calls[c].pc = "failed" => calls'[c] = calls[c]
       /\ Cardinality({i \in 1..Len(requests') :
                          requests'[i].method = "getDropletsByTag"})
             = Cardinality({c \in Calls : calls'[c].op = "listServers"
                                          /\ calls'[c].fetchFromHost})
      ]_vars

\* A listServers(true) has failed and the registry holds a record.
C15_Witness ==
    \E c \in Calls :
        /\ calls[c].op = "listServers" /\ calls[c].fetchFromHost
        /\ calls[c].pc = "failed"
        /\ Len(servers) >= 1

\* C16: a step that changes the registry is the success step of a createServer,
\* which puts that call's one record after the records that were there, or
\* the success step of a listServers(true), which makes the registry that
\* call's result.
C16_RegistryChangesByAppendOrReplace ==
    [][servers' # servers =>
          \/ \E c \in Calls : /\ Creates(c)
                              /\ servers' = Append(servers, calls'[c].result[1])
          \/ \E c \in Calls : /\ Refreshes(c)
                              /\ servers' = calls'[c].result
      ]_vars

\* The registry holds a record from a refresh followed by one from a create.
C16_Witness ==
    /\ Len(servers) = 2
    /\ \E k \in RefreshesDone : servers[1] = calls[k].result[1]
    /\ \E c \in Calls : /\ calls[c].op = "createServer" /\ calls[c].pc = "done"
                        /\ servers[2] = calls[c].result[1]

\* C18: no two records of the registry have the same composite key.
C18_RegistryKeysUnique ==
    \A i, j \in 1..Len(servers) : i # j => servers[i].id # servers[j].id

-----------------------------------------------------------------------------
(* Properties of the install script.                                       *)

\* The lines of the script that export the variable.
LinesOf(script, var) == {i \in 1..Len(script) : script[i].var = var}

\* The script has one line for the variable, with the field's value, when the
\* field is present, and none when it is absent.
ExportsWhenPresent(script, var, field, text) ==
    IF field = <<>> THEN LinesOf(script, var) = {}
    ELSE /\ Cardinality(LinesOf(script, var)) = 1
         /\ \A i \in LinesOf(script, var) : script[i].value = text

\* C17: for each of imageId, watchtowerRefreshSeconds, sentryApiUrl and
\* metricsUrl, the script exports the field's variable, once and with the
\* field's value, exactly when the settings have the field, whatever its
\* value, 0 and the empty string included.
C17_OptionalLinesWhenPresent ==
    output # <<>> =>
       LET script == output[1].value
           settings == shadowboxSettings
       IN  /\ ~output[1].threw
           /\ ExportsWhenPresent(script, "SB_IMAGE", settings.imageId,
                 IF settings.imageId = <<>> THEN "" ELSE settings.imageId[1])
           /\ ExportsWhenPresent(script, "WATCHTOWER_REFRESH_SECONDS",
                 settings.watchtowerRefreshSeconds,
                 IF settings.watchtowerRefreshSeconds = <<>> THEN ""
                 ELSE ToString(settings.watchtowerRefreshSeconds[1]))
           /\ ExportsWhenPresent(script, "SENTRY_API_URL", settings.sentryApiUrl,
                 IF settings.sentryApiUrl = <<>> THEN "" ELSE settings.sentryApiUrl[1])
           /\ ExportsWhenPresent(script, "SB_METRICS_URL", settings.metricsUrl,
                 IF settings.metricsUrl = <<>> THEN "" ELSE settings.metricsUrl[1])

-----------------------------------------------------------------------------
(* Properties of the region picker step.                                   *)

\* The create button is rendered enabled.
CreateButtonEnabled == _isCreateButtonEnabled(isServerBeingCreated, selectedIndex)

\* C19: the create button is enabled exactly when no server is being created
\* and selectedIndex >= 0; the step in which isServerBeingCreated becomes true
\* is a tap on the enabled button and dispatches exactly one RegionSelected
\* event; an event is dispatched in such a step only, so none is while a
\* creation is in progress; isServerBeingCreated becomes false again only by
\* reset(), which also leaves selectedIndex at -1.
C19_OneEventBetweenResets ==
    /\ [](CreateButtonEnabled <=> (~isServerBeingCreated /\ selectedIndex >= 0))
    /\ [][/\ (~isServerBeingCreated /\ isServerBeingCreated') =>
                /\ CreateButtonEnabled
                /\ Len(dispatched') = Len(dispatched) + 1
                /\ dispatched'[Len(dispatched')].type = "RegionSelected"
          /\ dispatched' # dispatched =>
                /\ CreateButtonEnabled
                /\ isServerBeingCreated'
                /\ SubSeq(dispatched', 1, Len(dispatched)) = dispatched
                /\ Len(dispatched') = Len(dispatched) + 1
          /\ (isServerBeingCreated /\ ~isServerBeingCreated') => selectedIndex' = -1
          /\ (selectedIndex >= 0 /\ selectedIndex' = -1) => ~isServerBeingCreated'
         ]_vars

\* C20: whenever the create button is enabled, selectedIndex is an index of
\* the options list and the option there is available; every event that is
\* dispatched carries the location of an option that is available.
C20_EnabledButtonHasAvailableOption ==
    /\ [](CreateButtonEnabled =>
             /\ selectedIndex < Len(options)
             /\ options[selectedIndex + 1].available)
    /\ [][dispatched' # dispatched =>
             \E i \in 1..Len(options) :
                /\ options[i].available
                /\ dispatched'[Len(dispatched')].selectedLocation
                      = options[i].cloudLocation
         ]_vars

====
